---- MODULE Spec2Model ----
(***************************************************************************)
(* Model of src/registry.rs (ludusavi): the Hives snapshot, the recursive  *)
(* capture (store_key / store_key_from_full_path), the replay (restore)    *)
(* and the conversions between winreg::RegValue and Entry.                 *)
(*                                                                         *)
(* Strings that are paths are sequences of chunks: a chunk is either one   *)
(* separator character ("/" or "\\") or a maximal separator-free piece of  *)
(* text.  Text payloads are sequences of UTF-16 code units (NUL = 0).      *)
(* Option<T> is a sequence of length 0 (None) or 1 (Some).                 *)
(***************************************************************************)
EXTENDS Integers, Sequences, FiniteSets, TLC

VARIABLES reg, snap, loaded, last, envSteps, orig, rt

vars == <<reg, snap, loaded, last, envSteps, orig, rt>>

\* ------------------------------------------------------------------ bounds
MaxEnvSteps == 1
MaxFaults == 1

\* ------------------------------------------------------------ Option<T>
None == <<>>
Some(x) == <<x>>
IsSome(o) == Len(o) = 1

\* ------------------------------------------------- winreg::RegValue side
NUL == 0
NL == 10

SupportedTypes == {"REG_SZ", "REG_EXPAND_SZ", "REG_MULTI_SZ", "REG_DWORD", "REG_QWORD"}
TextTypes == {"REG_SZ", "REG_EXPAND_SZ", "REG_MULTI_SZ"}

RECURSIVE TrimNul(_)
\* winreg String::from_reg_value: while s.ends_with('\0') { s.pop() }
TrimNul(s) ==
    IF Len(s) > 0 /\ s[Len(s)] = NUL THEN TrimNul(SubSeq(s, 1, Len(s) - 1)) ELSE s

\* winreg String::from_reg_value: REG_MULTI_SZ has its inner NULs replaced by '\n'
StringFromRegValue(item) ==
    LET s == TrimNul(item.bytes)
    IN  IF item.vtype = "REG_MULTI_SZ"
        THEN [i \in 1..Len(s) |-> IF s[i] = NUL THEN NL ELSE s[i]]
        ELSE s

\* winreg u32::from_reg_value / u64::from_reg_value: the stored number
\* (the payload of an integer value is one machine word, kept as <<n>>)
IntFromRegValue(item) == item.bytes[1]

\* winreg impl ToRegValue for String: always REG_SZ, NUL terminated
StringToRegValue(x) == [vtype |-> "REG_SZ", bytes |-> Append(x, NUL)]

\* winreg impl ToRegValue for u32
U32ToRegValue(x) == [vtype |-> "REG_DWORD", bytes |-> <<x>>]

\* winreg impl ToRegValue for u64
U64ToRegValue(x) == [vtype |-> "REG_QWORD", bytes |-> <<x>>]

\* ------------------------------------------------------------- Entry
DefaultEntry == [sz |-> None, expand_sz |-> None, multi_sz |-> None, dword |-> None, qword |-> None]

is_set(e) ==
    \/ IsSome(e.sz)
    \/ IsSome(e.expand_sz)
    \/ IsSome(e.multi_sz)
    \/ IsSome(e.dword)
    \/ IsSome(e.qword)

\* EntryFrom with the REG_DWORD arm filling the qword field
EntryFromDwordAsQword(item) ==
    CASE item.vtype = "REG_SZ" -> [DefaultEntry EXCEPT !.sz = Some(StringFromRegValue(item))]
      [] item.vtype = "REG_EXPAND_SZ" -> [DefaultEntry EXCEPT !.expand_sz = Some(StringFromRegValue(item))]
      [] item.vtype = "REG_MULTI_SZ" -> [DefaultEntry EXCEPT !.multi_sz = Some(StringFromRegValue(item))]
      [] item.vtype = "REG_DWORD" -> [DefaultEntry EXCEPT !.qword = Some(IntFromRegValue(item))]
      [] item.vtype = "REG_QWORD" -> [DefaultEntry EXCEPT !.qword = Some(IntFromRegValue(item))]
      [] OTHER -> DefaultEntry

\* impl From<winreg::RegValue> for Entry
EntryFrom(item) ==
    CASE item.vtype = "REG_SZ" -> [DefaultEntry EXCEPT !.sz = Some(StringFromRegValue(item))]
      [] item.vtype = "REG_EXPAND_SZ" -> [DefaultEntry EXCEPT !.expand_sz = Some(StringFromRegValue(item))]
      [] item.vtype = "REG_MULTI_SZ" -> [DefaultEntry EXCEPT !.multi_sz = Some(StringFromRegValue(item))]
      [] item.vtype = "REG_DWORD" -> [DefaultEntry EXCEPT !.dword = Some(IntFromRegValue(item))]
      [] item.vtype = "REG_QWORD" -> [DefaultEntry EXCEPT !.qword = Some(IntFromRegValue(item))]
      [] OTHER -> DefaultEntry

\* impl From<&Entry> for Option<winreg::RegValue>
RegValueFrom(item) ==
    IF IsSome(item.sz) THEN Some(StringToRegValue(item.sz[1]))
    ELSE IF IsSome(item.multi_sz) THEN Some(StringToRegValue(item.multi_sz[1]))
    ELSE IF IsSome(item.expand_sz) THEN Some(StringToRegValue(item.expand_sz[1]))
    ELSE IF IsSome(item.dword) THEN Some(U32ToRegValue(item.dword[1]))
    ELSE IF IsSome(item.qword) THEN Some(U64ToRegValue(item.qword[1]))
    ELSE None

\* get_hkey_from_name with a default hive in place of None
get_hkey_from_nameDefault(name) ==
    CASE name = "HKEY_CURRENT_USER" -> Some("HKCU")
      [] name = "HKEY_LOCAL_MACHINE" -> Some("HKLM")
      [] OTHER -> Some("HKCU")

\* fn get_hkey_from_name
get_hkey_from_name(name) ==
    CASE name = "HKEY_CURRENT_USER" -> Some("HKCU")
      [] name = "HKEY_LOCAL_MACHINE" -> Some("HKLM")
      [] OTHER -> None

\* ------------------------------------------------------------ path text
SEP == "\\"
ALT == "/"

\* store_key_from_full_path without the replace
ReplaceSlashNone(path) == path

\* str::replace('/', "\\")
ReplaceSlash(path) == [i \in 1..Len(path) |-> IF path[i] = ALT THEN SEP ELSE path[i]]

\* index of the first separator chunk, 0 when there is none
FirstSep(path) ==
    IF \E i \in 1..Len(path) : path[i] = SEP
    THEN CHOOSE i \in 1..Len(path) : path[i] = SEP /\ \A j \in 1..(i - 1) : path[j] # SEP
    ELSE 0

\* str::splitn(2, '\\') collected into a Vec
SplitN2(path) ==
    LET i == FirstSep(path)
    IN  IF i = 0 THEN <<path>> ELSE <<SubSeq(path, 1, i - 1), SubSeq(path, i + 1, Len(path))>>

\* the &str held by a separator-free slice: no chunk is the empty string, one chunk is its text
Text(chunks) == IF Len(chunks) = 1 THEN chunks[1] ELSE ""

\* format!("{}\\{}", key, name)
ChildPath(key, name) == key \o <<SEP, name>>

\* ------------------------------------------------------- the live store
Hives == {"HKCU", "HKLM"}

\* the key a path text names under a hive: name (\\ name)*; anything else names no key
WellFormedKey(key) ==
    /\ Len(key) % 2 = 1
    /\ \A i \in 1..Len(key) : IF i % 2 = 1 THEN key[i] \notin {SEP, ALT} ELSE key[i] = SEP

Segments(key) == [i \in 1..((Len(key) + 1) \div 2) |-> key[2 * i - 1]]

KeyText(segs) == [i \in 1..(2 * Len(segs) - 1) |-> IF i % 2 = 1 THEN segs[(i + 1) \div 2] ELSE SEP]

NoKeys == [k \in {} |-> [perm |-> TRUE, vals |-> <<>>]]
NoValues == [n \in {} |-> [vtype |-> "REG_SZ", bytes |-> <<>>]]
NoEntries == [n \in {} |-> DefaultEntry]
NoKeySet == [k \in {} |-> NoEntries]
EmptySnapshot == [h \in {} |-> NoKeySet]

Put(f, k, v) == [x \in (DOMAIN f) \cup {k} |-> IF x = k THEN v ELSE f[x]]

KeyExists(r, hive, key) == WellFormedKey(key) /\ Segments(key) \in DOMAIN r[hive]

\* RegKey::open_subkey succeeds: the key exists and this user may open it
CanOpen(r, hive, key) == KeyExists(r, hive, key) /\ r[hive][Segments(key)].perm

\* ------------------------------------------ enumeration and map iteration
\* Registry enumeration and HashMap iteration give no order guarantee: the
\* items come in a base order or in its reverse, chosen per call.
HiveNameOrder == <<"BOGUS", "HKEY_CURRENT_USER", "HKEY_LOCAL_MACHINE">>
KeyNameOrder == <<"A", "B", "C", "S">>
ValueNameOrder == <<"", "v">>
KeyTextOrder ==
    << KeyText(<<"S">>), KeyText(<<"S", "A">>), KeyText(<<"S", "A", "C">>), KeyText(<<"S", "B">>) >>

Reverse(q) == [i \in 1..Len(q) |-> q[Len(q) + 1 - i]]

Ordered(S, base, rev) ==
    LET f == SelectSeq(base, LAMBDA x : x \in S)
    IN  IF rev THEN Reverse(f) ELSE f

Fault(kind, key, name) == [kind |-> kind, key |-> key, name |-> name]

\* subkey.enum_values().filter_map(|x| x.ok()): the names whose enumeration did not error
enum_values(r, hive, key, env) ==
    LET vals == r[hive][Segments(key)].vals
    IN  Ordered({n \in DOMAIN vals : Fault("enum_value", key, n) \notin env.faults},
                ValueNameOrder, env.rev)

\* subkey.enum_keys().filter_map(|x| x.ok()): the child names whose enumeration did not error
enum_keys(r, hive, key, env) ==
    LET segs == Segments(key)
    IN  Ordered({n \in {KeyNameOrder[i] : i \in 1..Len(KeyNameOrder)} :
                    /\ Append(segs, n) \in DOMAIN r[hive]
                    /\ Fault("enum_key", ChildPath(key, n), "") \notin env.faults},
                KeyNameOrder, env.rev)

\* ---------------------------------------------------------------- capture
Call(call, hive, key, name, ok) == [call |-> call, hive |-> hive, key |-> key, name |-> name, ok |-> ok]

\* Insert with insert in place of or_insert_with on the entry
InsertOverwrite(s, hive_name, key, name, entry) ==
    LET keys == IF hive_name \in DOMAIN s THEN s[hive_name] ELSE NoKeySet
        entries == IF key \in DOMAIN keys THEN keys[key] ELSE NoEntries
    IN  Put(s, hive_name, Put(keys, key, Put(entries, name, entry)))

\* self.0.entry(hive_name).or_insert_with(..).0.entry(key).or_insert_with(..).0.entry(name).or_insert_with(|| entry)
Insert(s, hive_name, key, name, entry) ==
    LET keys == IF hive_name \in DOMAIN s THEN s[hive_name] ELSE NoKeySet
        entries == IF key \in DOMAIN keys THEN keys[key] ELSE NoEntries
        entries2 == IF name \in DOMAIN entries THEN entries ELSE Put(entries, name, entry)
    IN  Put(s, hive_name, Put(keys, key, entries2))

RECURSIVE StoreValues(_, _, _, _, _)
\* the loop over the values of one key (store_key, first for loop)
StoreValues(acc, hive_name, key, names, vals) ==
    IF names = <<>> THEN acc
    ELSE LET name == Head(names)
             entry == EntryFrom(vals[name])
             acc2 == IF is_set(entry)
                     THEN [snap |-> Insert(acc.snap, hive_name, key, name, entry), found |-> TRUE]
                     ELSE acc
         IN  StoreValues(acc2, hive_name, key, Tail(names), vals)

RECURSIVE store_key(_, _, _, _, _, _)
RECURSIVE StoreChildren(_, _, _, _, _, _, _)

\* Hives::store_key
store_key(s, r, hive, hive_name, key, env) ==
    IF ~CanOpen(r, hive, key)
    THEN [snap |-> s, ok |-> FALSE, found |-> FALSE, log |-> {Call("open", hive, key, "", FALSE)}]
    ELSE LET v == StoreValues([snap |-> s, found |-> FALSE], hive_name, key,
                              enum_values(r, hive, key, env), r[hive][Segments(key)].vals)
             c == StoreChildren([snap |-> v.snap, failed |-> FALSE,
                                 log |-> {Call("open", hive, key, "", TRUE)}],
                                r, hive, hive_name, key, enum_keys(r, hive, key, env), env)
         IN  [snap |-> c.snap, ok |-> ~c.failed,
              found |-> IF c.failed THEN FALSE ELSE v.found, log |-> c.log]

\* StoreChildren with failed assigned from the last child only
StoreChildrenLast(acc, r, hive, hive_name, key, names, env) ==
    IF names = <<>> THEN acc
    ELSE LET res == store_key(acc.snap, r, hive, hive_name, ChildPath(key, Head(names)), env)
         IN  StoreChildren([snap |-> res.snap, failed |-> ~res.ok,
                            log |-> acc.log \cup res.log],
                           r, hive, hive_name, key, Tail(names), env)

\* StoreChildren returning at the first failing child
StoreChildrenShort(acc, r, hive, hive_name, key, names, env) ==
    IF names = <<>> THEN acc
    ELSE LET res == store_key(acc.snap, r, hive, hive_name, ChildPath(key, Head(names)), env)
             acc2 == [snap |-> res.snap, failed |-> acc.failed \/ ~res.ok,
                      log |-> acc.log \cup res.log]
         IN  IF ~res.ok THEN acc2
             ELSE StoreChildren(acc2, r, hive, hive_name, key, Tail(names), env)

\* the loop over the child keys (store_key, second for loop)
StoreChildren(acc, r, hive, hive_name, key, names, env) ==
    IF names = <<>> THEN acc
    ELSE LET res == store_key(acc.snap, r, hive, hive_name, ChildPath(key, Head(names)), env)
         IN  StoreChildren([snap |-> res.snap, failed |-> acc.failed \/ ~res.ok,
                            log |-> acc.log \cup res.log],
                           r, hive, hive_name, key, Tail(names), env)

\* Hives::store_key_from_full_path
store_key_from_full_path(s, r, path, env) ==
    LET p == ReplaceSlash(path)
        parts == SplitN2(p)
        err == [snap |-> s, ok |-> FALSE, found |-> FALSE, log |-> {}]
    IN  IF Len(parts) # 2 THEN err
        ELSE LET hive_name == Text(parts[1])
                 hive == get_hkey_from_name(hive_name)
             IN  IF hive = None THEN err
                 ELSE store_key(s, r, hive[1], hive_name, parts[2], env)

\* ----------------------------------------------------------------- replay
Prefixes(segs) == {SubSeq(segs, 1, i) : i \in 1..Len(segs)}

\* the deepest existing proper ancestor decides whether a missing key may be created
AncestorsAllow(r, hive, segs) ==
    \A a \in Prefixes(segs) :
        (a # segs /\ a \in DOMAIN r[hive] /\ Append(a, segs[Len(a) + 1]) \notin DOMAIN r[hive])
            => r[hive][a].perm

\* RegKey::create_subkey succeeds (RegCreateKeyEx: opens an existing key, creates a missing one)
CanCreate(r, hive, key, env) ==
    /\ Fault("create", key, "") \notin env.faults
    /\ WellFormedKey(key)
    /\ IF Segments(key) \in DOMAIN r[hive]
       THEN r[hive][Segments(key)].perm
       ELSE AncestorsAllow(r, hive, Segments(key))

\* create_subkey that recreates an existing key empty
create_subkeyClear(r, hive, key) ==
    LET segs == Segments(key)
        new == {a \in Prefixes(segs) : a \notin DOMAIN r[hive]}
    IN  [r EXCEPT ![hive] = [k \in (DOMAIN r[hive]) \cup new |->
                                IF k \in new \/ k = segs THEN [perm |-> TRUE, vals |-> NoValues]
                                ELSE r[hive][k]]]

\* the store after create_subkey: the key and its missing ancestors exist, nothing else changes
create_subkey(r, hive, key) ==
    LET segs == Segments(key)
        new == {a \in Prefixes(segs) : a \notin DOMAIN r[hive]}
    IN  [r EXCEPT ![hive] = [k \in (DOMAIN r[hive]) \cup new |->
                                IF k \in new THEN [perm |-> TRUE, vals |-> NoValues]
                                ELSE r[hive][k]]]

\* RegKey::set_raw_value
set_raw_value(r, hive, key, name, value) ==
    [r EXCEPT ![hive][Segments(key)].vals = Put(@, name, value)]

RECURSIVE RestoreEntries(_, _, _, _, _, _)
\* RestoreEntries without the else branch that marks an unset entry as a failure
RestoreEntriesUnsetOk(acc, hive, key, names, entries, env) ==
    IF names = <<>> THEN acc
    ELSE LET name == Head(names)
             value == RegValueFrom(entries[name])
             acc2 ==
                 IF IsSome(value)
                 THEN IF Fault("set", key, name) \in env.faults
                      THEN [acc EXCEPT !.failed = TRUE,
                                       !.log = @ \cup {Call("set", hive, key, name, FALSE)}]
                      ELSE [acc EXCEPT !.reg = set_raw_value(@, hive, key, name, value[1]),
                                       !.log = @ \cup {Call("set", hive, key, name, TRUE)}]
                 ELSE acc
         IN  RestoreEntries(acc2, hive, key, Tail(names), entries, env)

\* the loop over the entries of one key (restore, innermost for loop)
RestoreEntries(acc, hive, key, names, entries, env) ==
    IF names = <<>> THEN acc
    ELSE LET name == Head(names)
             value == RegValueFrom(entries[name])
             acc2 ==
                 IF IsSome(value)
                 THEN IF Fault("set", key, name) \in env.faults
                      THEN [acc EXCEPT !.failed = TRUE,
                                       !.log = @ \cup {Call("set", hive, key, name, FALSE)}]
                      ELSE [acc EXCEPT !.reg = set_raw_value(@, hive, key, name, value[1]),
                                       !.log = @ \cup {Call("set", hive, key, name, TRUE)}]
                 ELSE [acc EXCEPT !.failed = TRUE]
         IN  RestoreEntries(acc2, hive, key, Tail(names), entries, env)

RECURSIVE RestoreKeys(_, _, _, _, _)
\* the loop over the keys of one hive (restore, middle for loop)
RestoreKeys(acc, hive, key_names, keys, env) ==
    IF key_names = <<>> THEN acc
    ELSE LET key_name == Head(key_names)
             acc2 ==
                 IF CanCreate(acc.reg, hive, key_name, env)
                 THEN RestoreEntries([acc EXCEPT !.reg = create_subkey(@, hive, key_name),
                                                 !.log = @ \cup {Call("create", hive, key_name, "", TRUE)}],
                                     hive, key_name,
                                     Ordered(DOMAIN keys[key_name], ValueNameOrder, env.rev),
                                     keys[key_name], env)
                 ELSE [acc EXCEPT !.failed = TRUE,
                                  !.log = @ \cup {Call("create", hive, key_name, "", FALSE)}]
         IN  RestoreKeys(acc2, hive, Tail(key_names), keys, env)

RECURSIVE RestoreHives(_, _, _, _)
\* RestoreHives with break in place of continue on an unknown hive name
RestoreHivesBreak(acc, hive_names, s, env) ==
    IF hive_names = <<>> THEN acc
    ELSE LET hive_name == Head(hive_names)
             hive == get_hkey_from_name(hive_name)
         IN  IF hive = None
             THEN [acc EXCEPT !.failed = TRUE]
             ELSE RestoreHives(RestoreKeys(acc, hive[1],
                                           Ordered(DOMAIN s[hive_name], KeyTextOrder, env.rev),
                                           s[hive_name], env),
                               Tail(hive_names), s, env)

\* the loop over the hives (restore, outer for loop)
RestoreHives(acc, hive_names, s, env) ==
    IF hive_names = <<>> THEN acc
    ELSE LET hive_name == Head(hive_names)
             hive == get_hkey_from_name(hive_name)
             acc2 ==
                 IF hive = None
                 THEN [acc EXCEPT !.failed = TRUE]
                 ELSE RestoreKeys(acc, hive[1],
                                  Ordered(DOMAIN s[hive_name], KeyTextOrder, env.rev),
                                  s[hive_name], env)
         IN  RestoreHives(acc2, Tail(hive_names), s, env)

\* Hives::restore
restore(s, r, env) ==
    LET acc == RestoreHives([reg |-> r, failed |-> FALSE, log |-> {}],
                            Ordered(DOMAIN s, HiveNameOrder, env.rev), s, env)
    IN  [reg |-> acc.reg, ok |-> ~acc.failed, log |-> acc.log]

\* ------------------------------------------------------- the model's data
RegSz == [vtype |-> "REG_SZ", bytes |-> <<97, NUL>>]
RegSzB == [vtype |-> "REG_SZ", bytes |-> <<98, NUL>>]
RegExpandSz == [vtype |-> "REG_EXPAND_SZ", bytes |-> <<97, NUL>>]
RegMultiSz == [vtype |-> "REG_MULTI_SZ", bytes |-> <<97, NUL, 98, NUL, NUL>>]
RegDword == [vtype |-> "REG_DWORD", bytes |-> <<7>>]
RegQword == [vtype |-> "REG_QWORD", bytes |-> <<7>>]
RegBinary == [vtype |-> "REG_BINARY", bytes |-> <<1>>]

NativeSamples == {RegSz, RegSzB, RegExpandSz, RegMultiSz, RegDword, RegQword, RegBinary}

KeyS == <<"S">>
KeyA == <<"S", "A">>
KeyB == <<"S", "B">>
KeyC == <<"S", "A", "C">>

\* the registry before the program runs: S has the children A and B, A has the child C;
\* pa and pb say whether this user may open A and B
InitReg(pa, pb) ==
    [h \in Hives |->
        IF h = "HKCU"
        THEN (KeyS :> [perm |-> TRUE, vals |-> NoValues])
             @@ (KeyA :> [perm |-> pa, vals |-> Put(Put(NoValues, "", RegMultiSz), "v", RegDword)])
             @@ (KeyB :> [perm |-> pb, vals |-> Put(NoValues, "", RegBinary)])
             @@ (KeyC :> [perm |-> TRUE, vals |-> Put(NoValues, "v", RegExpandSz)])
        ELSE (KeyS :> [perm |-> TRUE, vals |-> Put(Put(NoValues, "", RegQword), "v", RegSz)])]

\* documents Hives::load can return: serde accepts any hive name and any
\* combination of the five optional fields
LoadedBogus ==
    ("BOGUS" :> (KeyText(KeyA) :> ("v" :> [DefaultEntry EXCEPT !.sz = Some(<<98>>)])))
    @@ ("HKEY_CURRENT_USER" :> (KeyText(KeyA) :> ("v" :> [DefaultEntry EXCEPT !.dword = Some(3)])))

LoadedUnset ==
    ("HKEY_CURRENT_USER" :>
        (KeyText(KeyB) :> (("" :> DefaultEntry) @@ ("v" :> [DefaultEntry EXCEPT !.dword = Some(3)]))))
    @@ ("HKEY_LOCAL_MACHINE" :>
            (KeyText(KeyS) :> ("" :> [DefaultEntry EXCEPT !.sz = Some(<<98>>), !.dword = Some(3)])))

LoadedSnapshots == {LoadedBogus, LoadedUnset}

\* the paths handed to store_key_from_full_path
CapturePaths ==
    {<<"HKEY_CURRENT_USER", ALT, "S">>,
     <<"HKEY_LOCAL_MACHINE", ALT, "S">>,
     <<"BOGUS", SEP, "S">>,
     <<"HKEY_CURRENT_USER">>}

\* the keys handed to store_key by a caller that already holds HKEY_CURRENT_USER
StoreKeyArgs == {KeyText(KeyS), KeyText(KeyA)}

\* where an enumeration can error during a walk
CaptureFaultSites ==
    {Fault("enum_key", KeyText(KeyB), ""),
     Fault("enum_value", KeyText(KeyA), "v")}

\* where create_subkey or set_raw_value can error during a replay
RestoreFaultSites ==
    {Fault("create", KeyText(KeyA), ""),
     Fault("set", KeyText(KeyA), "v")}

FaultSets(S) == {F \in SUBSET S : Cardinality(F) <= MaxFaults}

CaptureEnvs == {[rev |-> rev, faults |-> F] : rev \in BOOLEAN, F \in FaultSets(CaptureFaultSites)}
RestoreEnvs == {[rev |-> rev, faults |-> F] : rev \in BOOLEAN, F \in FaultSets(RestoreFaultSites)}
NoFaults(rev) == [rev |-> rev, faults |-> {}]

NoOrig == [h \in Hives |-> NoKeys]
Last(op, arg, ok, found) == [op |-> op, arg |-> arg, ok |-> ok, found |-> found]
EnvLast == Last("env", <<>>, TRUE, FALSE)

\* ------------------------------------------------------------------- Init
Init ==
    /\ \E pa \in BOOLEAN, pb \in BOOLEAN : reg = InitReg(pa, pb)
    /\ snap \in {EmptySnapshot} \cup LoadedSnapshots
    /\ loaded = (snap # EmptySnapshot)
    /\ last = Last("new", <<>>, TRUE, FALSE)
    /\ envSteps = 0
    /\ orig = NoOrig
    /\ rt = "none"

\* ---------------------------------------------------------------- actions
\* a call of Hives::store_key_from_full_path
StoreKeyFromFullPath ==
    \E path \in CapturePaths, env \in CaptureEnvs :
        LET res == store_key_from_full_path(snap, reg, path, env)
            clean == snap = EmptySnapshot /\ res.ok /\ env.faults = {}
        IN  /\ snap' = res.snap
            /\ last' = Last("store_key_from_full_path", path, res.ok, res.found)
            /\ rt' = IF clean THEN "captured" ELSE "none"
            /\ orig' = IF clean THEN reg ELSE NoOrig
            /\ UNCHANGED <<reg, loaded, envSteps>>

\* a direct call of Hives::store_key
StoreKey ==
    \E key \in StoreKeyArgs, env \in CaptureEnvs :
        LET res == store_key(snap, reg, "HKCU", "HKEY_CURRENT_USER", key, env)
        IN  /\ snap' = res.snap
            /\ last' = Last("store_key", key, res.ok, res.found)
            /\ rt' = "none"
            /\ orig' = NoOrig
            /\ UNCHANGED <<reg, loaded, envSteps>>

\* a call of Hives::restore
Restore ==
    \E env \in RestoreEnvs :
        LET res == restore(snap, reg, env)
            clean == rt = "wiped" /\ res.ok
        IN  /\ reg' = res.reg
            /\ last' = Last("restore", <<>>, res.ok, FALSE)
            /\ rt' = IF clean THEN "restored" ELSE "none"
            /\ orig' = IF clean THEN orig ELSE NoOrig
            /\ UNCHANGED <<snap, loaded, envSteps>>

\* another program sets the value v of HKEY_CURRENT_USER\S\A
RegSetValue ==
    /\ envSteps < MaxEnvSteps
    /\ KeyA \in DOMAIN reg["HKCU"]
    /\ reg' = [reg EXCEPT !["HKCU"][KeyA].vals = Put(@, "v", RegSzB)]
    /\ envSteps' = envSteps + 1
    /\ last' = EnvLast
    /\ rt' = "none"
    /\ orig' = NoOrig
    /\ UNCHANGED <<snap, loaded>>

\* the keys are deleted (the program was uninstalled, or the snapshot moved to a fresh machine)
RegDeleteTree ==
    /\ envSteps < MaxEnvSteps
    /\ reg # NoOrig
    /\ reg' = [h \in Hives |-> NoKeys]
    /\ last' = EnvLast
    /\ rt' = IF rt = "captured" THEN "wiped" ELSE "none"
    /\ orig' = IF rt = "captured" THEN orig ELSE NoOrig
    /\ envSteps' = envSteps + 1
    /\ UNCHANGED <<snap, loaded>>

Next ==
    \/ StoreKeyFromFullPath
    \/ StoreKey
    \/ Restore
    \/ RegSetValue
    \/ RegDeleteTree

Spec == Init /\ [][Next]_vars

\* ============================================================ properties
\* Vocabulary of the properties, stated apart from the operators above.
Recognized(hive_name) == hive_name \in {"HKEY_CURRENT_USER", "HKEY_LOCAL_MACHINE"}
HiveOf(hive_name) == IF hive_name = "HKEY_CURRENT_USER" THEN "HKCU" ELSE "HKLM"

Variants == {"sz", "expand_sz", "multi_sz", "dword", "qword"}
Populated(e) == {f \in Variants : e[f] # None}

VariantOf(vtype) ==
    CASE vtype = "REG_SZ" -> "sz"
      [] vtype = "REG_EXPAND_SZ" -> "expand_sz"
      [] vtype = "REG_MULTI_SZ" -> "multi_sz"
      [] vtype = "REG_DWORD" -> "dword"
      [] vtype = "REG_QWORD" -> "qword"

Positions(s) ==
    UNION {UNION {{<<h, k, n>> : n \in DOMAIN s[h][k]} : k \in DOMAIN s[h]} : h \in DOMAIN s}
EntryAt(s, p) == s[p[1]][p[2]][p[3]]

LiveValues(r) ==
    UNION {UNION {{r[h][k].vals[n] : n \in DOMAIN r[h][k].vals} : k \in DOMAIN r[h]} : h \in Hives}

HasValue(r, hive, segs, name) ==
    segs \in DOMAIN r[hive] /\ name \in DOMAIN r[hive][segs].vals

FullPathCalls == {store_key_from_full_path(snap, reg, path, env) : path \in CapturePaths, env \in CaptureEnvs}
StoreKeyCalls ==
    {store_key(snap, reg, "HKCU", "HKEY_CURRENT_USER", key, env) : key \in StoreKeyArgs, env \in CaptureEnvs}

\* C7: type fidelity on capture.  Every native value of the live store
\* converts to an entry whose populated variants are exactly the one variant
\* of its type tag (none for an unsupported tag); no capture call adds an
\* entry without exactly one populated variant; so a snapshot built by
\* capture alone holds only entries with exactly one populated variant.
C7_TypeFidelity ==
    /\ \A v \in LiveValues(reg) \cup NativeSamples :
           Populated(EntryFrom(v)) =
               IF v.vtype \in SupportedTypes THEN {VariantOf(v.vtype)} ELSE {}
    /\ \A res \in FullPathCalls \cup StoreKeyCalls :
           \A p \in Positions(res.snap) \ Positions(snap) :
               Cardinality(Populated(EntryAt(res.snap, p))) = 1
    /\ ~loaded => \A p \in Positions(snap) : Cardinality(Populated(EntryAt(snap, p))) = 1

\* a snapshot built by capture alone holds all five variants, and the
\* REG_BINARY value of the walked key S\B is not in it
C7_Witness ==
    /\ ~loaded
    /\ last.op = "store_key_from_full_path" /\ last.ok
    /\ UNION {Populated(EntryAt(snap, p)) : p \in Positions(snap)} = Variants
    /\ CanOpen(reg, "HKCU", KeyText(KeyB))
    /\ HasValue(reg, "HKCU", KeyB, "") /\ reg["HKCU"][KeyB].vals[""] = RegBinary
    /\ KeyText(KeyB) \notin DOMAIN snap["HKEY_CURRENT_USER"]

\* C1: round trip.  After a capture into an empty snapshot, the deletion of
\* the keys and a replay without failure, every captured key path holds, for
\* each value of a supported type it held at capture, the same native value
\* (type tag and payload).
C1_RoundTrip ==
    rt = "restored" =>
        \A hn \in DOMAIN snap : \A k \in DOMAIN snap[hn] :
            LET hive == HiveOf(hn)
                segs == Segments(k)
            IN  \A n \in DOMAIN orig[hive][segs].vals :
                    orig[hive][segs].vals[n].vtype \in SupportedTypes =>
                        /\ HasValue(reg, hive, segs, n)
                        /\ reg[hive][segs].vals[n] = orig[hive][segs].vals[n]

\* C10: snapshot monotonicity.  No step removes a hive, a key path or an
\* entry from the snapshot or changes an entry it holds, and a restore step
\* leaves the snapshot as it is.
C10_Monotone ==
    [][ /\ \A p \in Positions(snap) :
               p \in Positions(snap') /\ EntryAt(snap', p) = EntryAt(snap, p)
        /\ (DOMAIN snap) \subseteq DOMAIN snap'
        /\ \A h \in DOMAIN snap : (DOMAIN snap[h]) \subseteq DOMAIN snap'[h]
        /\ last'.op = "restore" => snap' = snap ]_vars

\* the value v of S\A was captured as a dword, another program then set it
\* to a string, and a later capture left the first-captured entry in place
C10_Witness ==
    /\ last.op \in {"store_key", "store_key_from_full_path"} /\ last.ok
    /\ envSteps = 1
    /\ HasValue(reg, "HKCU", KeyA, "v") /\ reg["HKCU"][KeyA].vals["v"] = RegSzB
    /\ <<"HKEY_CURRENT_USER", KeyText(KeyA), "v">> \in Positions(snap)
    /\ snap["HKEY_CURRENT_USER"][KeyText(KeyA)]["v"] = [DefaultEntry EXCEPT !.dword = Some(7)]
    /\ ~loaded

\* the path with every separator written as "\\"
Backslashed(path) == [i \in 1..Len(path) |-> IF path[i] \in {SEP, ALT} THEN SEP ELSE path[i]]

HasSeparator(path) == \E i \in 1..Len(path) : path[i] \in {SEP, ALT}

\* the text before the first separator of either kind
HiveText(path) ==
    LET i == CHOOSE j \in 1..Len(path) :
                 path[j] \in {SEP, ALT} /\ \A m \in 1..(j - 1) : path[m] \notin {SEP, ALT}
    IN  Text(SubSeq(path, 1, i - 1))

BadPath(path) == ~HasSeparator(path) \/ ~Recognized(HiveText(path))

ProbePaths ==
    CapturePaths \cup {Backslashed(p) : p \in CapturePaths}
    \cup {<<"HKEY_CURRENT_USER", SEP, "S", ALT, "A">>, <<"HKEY_CURRENT_USER", ALT, "S", ALT, "A">>,
          <<"BOGUS", ALT, "S">>, <<SEP, "S">>, <<>>, <<"HKEY_LOCAL_MACHINE">>}

\* C6: closed hive set at the capture boundary.  store_key_from_full_path on
\* a path without separator, or whose text before the first separator is not
\* HKEY_CURRENT_USER or HKEY_LOCAL_MACHINE, fails, calls nothing of the live
\* store and leaves the snapshot as it was.
C6_ClosedHiveSet ==
    \A path \in ProbePaths, env \in CaptureEnvs :
        BadPath(path) =>
            LET res == store_key_from_full_path(snap, reg, path, env)
            IN  ~res.ok /\ res.log = {} /\ res.snap = snap

\* a capture of BOGUS\S has failed although the key S exists under both hives
C6_Witness ==
    /\ last.op = "store_key_from_full_path" /\ last.arg = <<"BOGUS", SEP, "S">>
    /\ ~last.ok
    /\ CanOpen(reg, "HKCU", KeyText(KeyS)) /\ CanOpen(reg, "HKLM", KeyText(KeyS))
    /\ snap = EmptySnapshot

\* C8: separator normalization.  From the same store and snapshot, a path
\* and the same path written with "\\" only give the same result, the same
\* snapshot and the same calls, and no key path added to the snapshot holds
\* a "/".
C8_SeparatorNormalization ==
    \A path \in ProbePaths, env \in CaptureEnvs :
        LET res == store_key_from_full_path(snap, reg, path, env)
        IN  /\ res = store_key_from_full_path(snap, reg, Backslashed(path), env)
            /\ \A p \in Positions(res.snap) \ Positions(snap) :
                   \A i \in 1..Len(p[2]) : p[2][i] # ALT

\* a capture through a path written with "/" has succeeded and stored S\A
C8_Witness ==
    /\ last.op = "store_key_from_full_path" /\ last.ok
    /\ \E i \in 1..Len(last.arg) : last.arg[i] = ALT
    /\ "HKEY_CURRENT_USER" \in DOMAIN snap
    /\ KeyText(KeyA) \in DOMAIN snap["HKEY_CURRENT_USER"]
    /\ ~loaded

\* ---- replay
\* C3: replay result.  restore fails if and only if a hive name of the
\* snapshot is not in the closed set, or a create_subkey call failed, or an
\* entry of the snapshot has no variant populated, or a set_raw_value call
\* failed.
C3_RestoreResult ==
    \A env \in RestoreEnvs :
        LET res == restore(snap, reg, env)
        IN  ~res.ok <=>
                \/ \E hn \in DOMAIN snap : ~Recognized(hn)
                \/ \E c \in res.log : c.call = "create" /\ ~c.ok
                \/ \E p \in Positions(snap) : Populated(EntryAt(snap, p)) = {}
                \/ \E c \in res.log : c.call = "set" /\ ~c.ok

\* a replay of the loaded snapshot whose only defect is an unset entry has failed
C3_Witness ==
    /\ last.op = "restore" /\ ~last.ok
    /\ snap = LoadedUnset
    /\ HasValue(reg, "HKCU", KeyB, "v") /\ reg["HKCU"][KeyB].vals["v"] = U32ToRegValue(3)

\* C4: replay continuation without rollback.  After restore, every entry
\* with a populated variant that lies under a recognized hive and a key that
\* could be created, and whose set did not fail, has been written and is in
\* the live store; an unset entry is never written.
C4_RestoreContinues ==
    \A env \in RestoreEnvs :
        LET res == restore(snap, reg, env)
        IN  \A p \in Positions(snap) :
                LET hive == HiveOf(p[1])
                    e == EntryAt(snap, p)
                IN  /\ ( /\ Recognized(p[1])
                         /\ CanCreate(reg, hive, p[2], env)
                         /\ Populated(e) # {}
                         /\ Fault("set", p[2], p[3]) \notin env.faults )
                       => /\ Call("set", hive, p[2], p[3], TRUE) \in res.log
                          /\ HasValue(res.reg, hive, Segments(p[2]), p[3])
                          /\ res.reg[hive][Segments(p[2])].vals[p[3]] = RegValueFrom(e)[1]
                    /\ Populated(e) = {} =>
                          \A c \in res.log : ~(c.call = "set" /\ c.key = p[2] /\ c.name = p[3]
                                               /\ c.hive = hive /\ Recognized(p[1]))

\* a replay of the loaded snapshot with the unknown hive BOGUS has failed
\* and the entry under HKEY_CURRENT_USER is written all the same
C4_Witness ==
    /\ last.op = "restore" /\ ~last.ok
    /\ snap = LoadedBogus
    /\ HasValue(reg, "HKCU", KeyA, "v") /\ reg["HKCU"][KeyA].vals["v"] = U32ToRegValue(3)

\* the snapshot s lists the value name of the key segs of hive
Listed(s, hive, segs, name) ==
    \E p \in Positions(s) :
        Recognized(p[1]) /\ HiveOf(p[1]) = hive /\ WellFormedKey(p[2])
        /\ Segments(p[2]) = segs /\ p[3] = name

\* C5: idempotent key creation.  restore removes no key, changes the
\* permission of no key, and removes or alters no value that the snapshot
\* does not name at that key; each value present afterwards was present
\* before or is named by the snapshot, and each key present afterwards was
\* present before or is a key path of the snapshot or an ancestor of one.
C5_RestoreFrame ==
    \A env \in RestoreEnvs :
        LET res == restore(snap, reg, env)
        IN  \A hive \in Hives :
                /\ \A k \in DOMAIN reg[hive] :
                       /\ k \in DOMAIN res.reg[hive]
                       /\ res.reg[hive][k].perm = reg[hive][k].perm
                       /\ \A n \in DOMAIN reg[hive][k].vals :
                              ~Listed(snap, hive, k, n) =>
                                  /\ n \in DOMAIN res.reg[hive][k].vals
                                  /\ res.reg[hive][k].vals[n] = reg[hive][k].vals[n]
                /\ \A k \in DOMAIN res.reg[hive] :
                       /\ \A n \in DOMAIN res.reg[hive][k].vals :
                              HasValue(reg, hive, k, n) \/ Listed(snap, hive, k, n)
                       /\ k \in DOMAIN reg[hive]
                          \/ \E p \in Positions(snap) :
                                 Recognized(p[1]) /\ HiveOf(p[1]) = hive
                                 /\ k \in Prefixes(Segments(p[2]))

\* a replay has written the listed value v of the existing key S\A and the
\* unlisted value "" it held before is still there
C5_Witness ==
    /\ last.op = "restore"
    /\ snap = LoadedBogus
    /\ envSteps = 0
    /\ HasValue(reg, "HKCU", KeyA, "v") /\ reg["HKCU"][KeyA].vals["v"] = U32ToRegValue(3)
    /\ HasValue(reg, "HKCU", KeyA, "") /\ reg["HKCU"][KeyA].vals[""] = RegMultiSz

\* ---- capture
IsPrefix(a, b) == Len(a) <= Len(b) /\ SubSeq(b, 1, Len(a)) = a

\* the existing keys below the key top, top included
Subtree(r, hive, top) == {k \in DOMAIN r[hive] : IsPrefix(top, k)}

\* the child keys of segs whose enumeration does not error
EnumeratedChildren(r, hive, segs, env) ==
    {k \in DOMAIN r[hive] :
        /\ Len(k) = Len(segs) + 1 /\ IsPrefix(segs, k)
        /\ Fault("enum_key", KeyText(k), "") \notin env.faults}

\* the keys a walk from top arrives at: top, and every key whose ancestors
\* from top on can all be opened and which are all enumerated on the way down
Reached(r, hive, top, env) ==
    {top} \cup
    {k \in Subtree(r, hive, top) :
        \A i \in Len(top)..(Len(k) - 1) :
            /\ CanOpen(r, hive, KeyText(SubSeq(k, 1, i)))
            /\ SubSeq(k, 1, i + 1) \in EnumeratedChildren(r, hive, SubSeq(k, 1, i), env)}

\* the value names of a key that are enumerated and decode to a set entry
SetValues(r, hive, segs, env) ==
    {n \in DOMAIN r[hive][segs].vals :
        /\ Fault("enum_value", KeyText(segs), n) \notin env.faults
        /\ r[hive][segs].vals[n].vtype \in SupportedTypes}

ProbeKeys == StoreKeyArgs \cup {KeyText(KeyB), KeyText(KeyC), KeyText(<<"S", "X">>)}

\* C9: capture result.  store_key fails if and only if the key cannot be
\* opened or the call on one of its enumerated child keys fails, which is if
\* and only if some key the walk arrives at cannot be opened; when it
\* succeeds, found is true exactly when the key itself holds a value that is
\* enumerated and decodes to a set entry.
C9_StoreKeyResult ==
    \A key \in ProbeKeys, env \in CaptureEnvs :
        LET res == store_key(snap, reg, "HKCU", "HKEY_CURRENT_USER", key, env)
            segs == Segments(key)
        IN  /\ ~res.ok <=>
                   \/ ~CanOpen(reg, "HKCU", key)
                   \/ \E c \in EnumeratedChildren(reg, "HKCU", segs, env) :
                          ~store_key(snap, reg, "HKCU", "HKEY_CURRENT_USER", KeyText(c), env).ok
            /\ ~res.ok <=> \E k \in Reached(reg, "HKCU", segs, env) : ~CanOpen(reg, "HKCU", KeyText(k))
            /\ res.ok => (res.found <=> SetValues(reg, "HKCU", segs, env) # {})

\* store_key on S has succeeded with found false, S holds no value, and the
\* values of its descendants are in the snapshot
C9_Witness ==
    /\ last.op = "store_key" /\ last.arg = KeyText(KeyS)
    /\ last.ok /\ ~last.found
    /\ reg["HKCU"][KeyS].vals = NoValues
    /\ "HKEY_CURRENT_USER" \in DOMAIN snap
    /\ KeyText(KeyA) \in DOMAIN snap["HKEY_CURRENT_USER"]
    /\ KeyText(KeyC) \in DOMAIN snap["HKEY_CURRENT_USER"]

\* a child key of segs that is enumerated cannot be opened
HasClosedChild(r, hive, segs, env) ==
    \E c \in EnumeratedChildren(r, hive, segs, env) : ~CanOpen(r, hive, KeyText(c))

\* the snapshot after has an entry for the value name of the key k, and it
\* is the decoded live value where the snapshot before had none there
Captured(before, after, r, hive_name, k, name) ==
    LET p == <<hive_name, KeyText(k), name>>
    IN  /\ p \in Positions(after)
        /\ p \notin Positions(before) => EntryAt(after, p) = EntryFrom(r[HiveOf(hive_name)][k].vals[name])

\* C2 as stated: when an openable key has a child key that cannot be opened
\* (and no enumeration errors), every child is visited, the call fails, and
\* the snapshot has the set values of every key of the subtree that can be
\* opened.
C2_AllOpenableKeysCaptured ==
    \A key \in ProbeKeys, rev \in BOOLEAN :
        LET env == NoFaults(rev)
            res == store_key(snap, reg, "HKCU", "HKEY_CURRENT_USER", key, env)
            segs == Segments(key)
        IN  (CanOpen(reg, "HKCU", key) /\ HasClosedChild(reg, "HKCU", segs, env)) =>
                /\ ~res.ok
                /\ \A c \in EnumeratedChildren(reg, "HKCU", segs, env) :
                       \E x \in res.log : x.call = "open" /\ x.key = KeyText(c)
                /\ \A k \in Subtree(reg, "HKCU", segs) :
                       CanOpen(reg, "HKCU", KeyText(k)) =>
                           \A n \in SetValues(reg, "HKCU", k, env) :
                               Captured(snap, res.snap, reg, "HKEY_CURRENT_USER", k, n)

\* C2 as amended: when an openable key has an enumerated child key that
\* cannot be opened, every enumerated child is visited, the call fails, and
\* the snapshot has an entry for every enumerated set value of every key
\* that the walk arrives at and can open.
C2_ReachedKeysCaptured ==
    \A key \in ProbeKeys, env \in CaptureEnvs :
        LET res == store_key(snap, reg, "HKCU", "HKEY_CURRENT_USER", key, env)
            segs == Segments(key)
        IN  (CanOpen(reg, "HKCU", key) /\ HasClosedChild(reg, "HKCU", segs, env)) =>
                /\ ~res.ok
                /\ \A c \in EnumeratedChildren(reg, "HKCU", segs, env) :
                       \E x \in res.log : x.call = "open" /\ x.key = KeyText(c)
                /\ \A k \in Reached(reg, "HKCU", segs, env) :
                       CanOpen(reg, "HKCU", KeyText(k)) =>
                           \A n \in SetValues(reg, "HKCU", k, env) :
                               Captured(snap, res.snap, reg, "HKEY_CURRENT_USER", k, n)

\* store_key on S has failed because S\B cannot be opened, and the values of
\* S\A and S\A\C are in the snapshot
C2_Witness ==
    /\ last.op = "store_key" /\ last.arg = KeyText(KeyS) /\ ~last.ok
    /\ KeyExists(reg, "HKCU", KeyText(KeyB)) /\ ~CanOpen(reg, "HKCU", KeyText(KeyB))
    /\ CanOpen(reg, "HKCU", KeyText(KeyA))
    /\ "HKEY_CURRENT_USER" \in DOMAIN snap
    /\ KeyText(KeyA) \in DOMAIN snap["HKEY_CURRENT_USER"]
    /\ DOMAIN snap["HKEY_CURRENT_USER"][KeyText(KeyA)] = {"", "v"}
    /\ KeyText(KeyC) \in DOMAIN snap["HKEY_CURRENT_USER"]
    /\ ~loaded
====
